---- MODULE Spec2Model ----
(***************************************************************************)
(* Asset store adapter of claimspace-img-uploader: uploadImage (store),    *)
(* getUploadedImages (list), deleteImage (remove) and                      *)
(* ensureImagesDirectory (bootstrap) over a path-addressed content         *)
(* repository.  The repository holds two versions of the service module:   *)
(* the one with validation, probe and filtering (src/unnamed/part_000)     *)
(* and src/src/services/uploadService.ts; both are modelled, the variable  *)
(* service says which one a run uses.                                      *)
(*                                                                         *)
(* Strings are sequences of one-character strings, so that replace, split, *)
(* endsWith, startsWith, toLowerCase and localeCompare are computed.       *)
(***************************************************************************)
EXTENDS Integers, Sequences, FiniteSets, TLC

\* ------------------------------------------------------------------ bounds
\* Concurrent calls in flight.
MaxCalls == 2
\* Millisecond clock values a run can see (Date.getTime() is Epoch + now).
MaxTime == 2
\* Calls a run starts, the fetchImages of the mount effect aside.
MaxOps == 2
\* Requests and file reads that fail in a run for reasons outside the
\* repository's contents.
MaxFaults == 1
\* Length of the declared names of the sanitization specification.
MaxLen == 3
\* Uploads a run starts from the upload area.
MaxDrops == 1

\* ----------------------------------------------------------------- strings
Lower == <<"a", "b", "c", "d", "e", "f", "g", "h", "i", "j", "k", "l", "m", "n", "o", "p", "q", "r", "s", "t", "u", "v", "w", "x", "y", "z">>
Upper == <<"A", "B", "C", "D", "E", "F", "G", "H", "I", "J", "K", "L", "M", "N", "O", "P", "Q", "R", "S", "T", "U", "V", "W", "X", "Y", "Z">>
Digits == <<"0", "1", "2", "3", "4", "5", "6", "7", "8", "9">>

Range(s) == {s[i] : i \in DOMAIN s}

IndexIn(ch, s) == CHOOSE i \in DOMAIN s : s[i] = ch

\* String.prototype.toLowerCase, character by character.
LowerOf == [ch \in Range(Upper) |-> Lower[IndexIn(ch, Upper)]]

LowerChar(ch) == IF ch \in DOMAIN LowerOf THEN LowerOf[ch] ELSE ch

toLowerCase(s) == [i \in DOMAIN s |-> LowerChar(s[i])]

\* String.prototype.endsWith / startsWith.
endsWith(s, suf) ==
  /\ Len(suf) <= Len(s)
  /\ SubSeq(s, Len(s) - Len(suf) + 1, Len(s)) = suf

startsWith(s, pre) ==
  /\ Len(pre) <= Len(s)
  /\ SubSeq(s, 1, Len(pre)) = pre

\* Whether sep occurs in s at position i.
OccursAt(s, sep, i) ==
  /\ i + Len(sep) - 1 <= Len(s)
  /\ SubSeq(s, i, i + Len(sep) - 1) = sep

\* String.prototype.split(sep) for a non-empty separator: the pieces between
\* the occurrences of sep, scanned from the left.
RECURSIVE SplitFrom(_, _, _, _)
SplitFrom(s, sep, i, start) ==
  IF i > Len(s) THEN <<SubSeq(s, start, Len(s))>>
  ELSE IF OccursAt(s, sep, i)
       THEN <<SubSeq(s, start, i - 1)>> \o SplitFrom(s, sep, i + Len(sep), i + Len(sep))
       ELSE SplitFrom(s, sep, i + 1, start)

split(s, sep) == SplitFrom(s, sep, 1, 1)

\* Template-literal rendering of a non-negative integer.
RECURSIVE ToDigits(_)
ToDigits(n) == IF n < 10 THEN <<Digits[n + 1]>> ELSE ToDigits(n \div 10) \o <<Digits[(n % 10) + 1]>>

\* Code-unit order of the characters file names are made of.
CodeUnitOrder == <<" ", "-", ".", "/">> \o Digits \o Upper \o <<"_">> \o Lower

\* Primary collation order of String.prototype.localeCompare (root
\* collation): white space, punctuation (_ - . /), digits, letters; the case
\* of a letter is a tertiary difference, lower case first.
CollationOrder == <<" ", "_", "-", ".", "/">> \o Digits \o Lower

CodeUnitOf == [ch \in Range(CodeUnitOrder) |-> IndexIn(ch, CodeUnitOrder)]

PrimaryOf == [ch \in Range(CodeUnitOrder) |-> IndexIn(LowerChar(ch), CollationOrder)]

CodeUnit(ch) == CodeUnitOf[ch]

Primary(ch) == PrimaryOf[ch]

\* Lexicographic comparison of two sequences of integer keys: -1, 0 or 1.
RECURSIVE CompareKeys(_, _)
CompareKeys(a, b) ==
  IF a = <<>> /\ b = <<>> THEN 0
  ELSE IF a = <<>> THEN -1
  ELSE IF b = <<>> THEN 1
  ELSE IF Head(a) < Head(b) THEN -1
  ELSE IF Head(a) > Head(b) THEN 1
  ELSE CompareKeys(Tail(a), Tail(b))

CodeUnitLess(a, b) ==
  CompareKeys([i \in DOMAIN a |-> CodeUnit(a[i])], [i \in DOMAIN b |-> CodeUnit(b[i])]) < 0

\* Tertiary key: 0 for a lower-case letter or a caseless character, 1 for an
\* upper-case letter.
CaseKey(ch) == IF ch \in DOMAIN LowerOf THEN 1 ELSE 0

\* a.localeCompare(b)
localeCompare(a, b) ==
  LET p == CompareKeys([i \in DOMAIN a |-> Primary(a[i])], [i \in DOMAIN b |-> Primary(b[i])])
  IN IF p # 0 THEN p
     ELSE CompareKeys([i \in DOMAIN a |-> CaseKey(a[i])], [i \in DOMAIN b |-> CaseKey(b[i])])

\* --------------------------------------------------------- module constants
\* const BRANCH = 'main'
BRANCH == <<"m", "a", "i", "n">>

\* 'https://raw.githubusercontent.com/'
RawHost == <<"h", "t", "t", "p", "s", ":", "/", "/", "r", "a", "w", ".", "g", "i", "t", "h", "u", "b", "u", "s", "e", "r", "c", "o", "n", "t", "e", "n", "t", ".", "c", "o", "m", "/">>

\* 'public/images'
ImagesDir == <<"p", "u", "b", "l", "i", "c", "/", "i", "m", "a", "g", "e", "s">>

\* 'public/images/.gitkeep' is written by ensureImagesDirectory.
GitKeep == <<".", "g", "i", "t", "k", "e", "e", "p">>

SUPPORTED_IMAGE_EXTENSIONS == {
  <<".", "j", "p", "g">>, <<".", "j", "p", "e", "g">>, <<".", "p", "n", "g">>,
  <<".", "g", "i", "f">>, <<".", "w", "e", "b", "p">>, <<".", "s", "v", "g">>,
  <<".", "b", "m", "p">>, <<".", "i", "c", "o">>, <<".", "t", "i", "f", "f">>,
  <<".", "t", "i", "f">> }

IGNORED_FILES == {
  GitKeep,
  <<".", "g", "i", "t", "i", "g", "n", "o", "r", "e">>,
  <<"R", "E", "A", "D", "M", "E", ".", "m", "d">>,
  <<".", "D", "S", "_", "S", "t", "o", "r", "e">>,
  <<"T", "h", "u", "m", "b", "s", ".", "d", "b">> }

\* const maxSize = 25 * 1024 * 1024
maxSize == 25 * 1024 * 1024

\* ------------------------------------------------------------ pure helpers
isImageFile(filename) ==
  LET ext == toLowerCase(filename)
  IN \E extension \in SUPPORTED_IMAGE_EXTENSIONS : endsWith(ext, extension)

shouldIgnoreFile(filename) ==
  filename \in IGNORED_FILES \/ startsWith(filename, <<".">>)

\* The character class [a-zA-Z0-9.-] of the replace in uploadImage.
SafeChars == Range(Lower) \cup Range(Upper) \cup Range(Digits) \cup {".", "-"}

SafeChar(ch) == ch \in SafeChars

\* The replace without the g flag: only the first match is replaced.
safeFileName_firstOnly(name) ==
  [i \in DOMAIN name |->
     IF ~SafeChar(name[i]) /\ \A j \in 1 .. (i - 1) : SafeChar(name[j]) THEN "_" ELSE name[i]]

\* The replace without the g flag and with '-' as replacement: each run
\* replaces one more character.
safeFileName_firstOnlyDash(name) ==
  [i \in DOMAIN name |->
     IF ~SafeChar(name[i]) /\ \A j \in 1 .. (i - 1) : SafeChar(name[j]) THEN "-" ELSE name[i]]

\* file.name.replace(/[^a-zA-Z0-9.-]/g, '_')
safeFileName(name) == [i \in DOMAIN name |-> IF SafeChar(name[i]) THEN name[i] ELSE "_"]


\* --------------------------------------------------------------- inputs
\* The module-level configuration read from import.meta.env; an empty string
\* is a missing (falsy) value.
Configured == [token |-> <<"t">>, owner |-> <<"o">>, repo |-> <<"r">>]
OwnerEndsInMain == [token |-> <<"t">>, owner |-> <<"x", "m", "a", "i", "n">>, repo |-> <<"r">>]
Unconfigured == {
  [token |-> <<>>, owner |-> <<"o">>, repo |-> <<"r">>],
  [token |-> <<"t">>, owner |-> <<>>, repo |-> <<"r">>],
  [token |-> <<"t">>, owner |-> <<"o">>, repo |-> <<>>] }

\* Files a caller can hand to uploadImage: name, size in bytes, payload.
PhotoOne == [name |-> <<"a", " ", "b", ".", "P", "N", "G">>, size |-> 2048, data |-> 1]
PhotoTwo == [name |-> <<"a", "_", "b", ".", "P", "N", "G">>, size |-> 25 * 1024 * 1024, data |-> 2]
TooBig == [name |-> <<"c", ".", "j", "p", "g">>, size |-> 30 * 1000 * 1000, data |-> 1]
NotAnImage == [name |-> <<"n", ".", "t", "x", "t">>, size |-> 2048, data |-> 2]

\* onProgress: -1 when the caller passes none, 0 for a callback that returns
\* normally, v > 0 for a callback that throws when it is handed v.
Uploads == {
  [file |-> PhotoOne, cb |-> 0],
  [file |-> PhotoTwo, cb |-> 100],
  [file |-> TooBig, cb |-> -1],
  [file |-> NotAnImage, cb |-> -1] }

\* Directory entries the repository can hold before the first call.
FileEntry(d) == [type |-> "file", data |-> d]
DirEntry == [type |-> "dir", data |-> 0]

\* The payload of the placeholder: '# This file keeps the directory in git'.
KeepData == 8

\* The payload another writer of the repository puts at a path.
OtherData == 9

\* Epoch is the first twelve digits of new Date().getTime() as the template
\* literal renders it; the thirteenth is the clock of the model.
Epoch == <<"1", "7", "0", "0", "0", "0", "0", "0", "0", "0", "0", "0">>
Timestamp(t) == Epoch \o ToDigits(t)

\* An asset stored by an earlier uploadImage call, at clock 0.
EarlierName == Timestamp(0) \o <<"-", "a", "_", "b", ".", "P", "N", "G">>

\* A directory in use: an earlier upload, and entries other tools left.
MixedDir ==
  (EarlierName :> FileEntry(1))
    @@ (<<"I", "M", "G", ".", "J", "P", "G">> :> FileEntry(7))
    @@ (<<"n", "o", "t", "e", "s", ".", "t", "x", "t">> :> FileEntry(7))
    @@ (GitKeep :> FileEntry(KeepData))
    @@ (<<".", "x", ".", "p", "n", "g">> :> FileEntry(7))
    @@ (<<"o", "l", "d", ".", "p", "n", "g">> :> DirEntry)

\* The two versions of the service module.
Services == {"part_000", "uploadService"}

\* The deployments a run starts from: the version of the service module, the
\* configuration, the entries of public/images, and whether that path holds
\* a single file instead.
Deployments ==
  {[service |-> sv, config |-> Configured, dir |-> d, isFile |-> FALSE] :
      sv \in Services, d \in {<<>>, MixedDir}}
  \cup {[service |-> sv, config |-> cfg, dir |-> MixedDir, isFile |-> FALSE] :
      sv \in Services, cfg \in Unconfigured}
  \cup {[service |-> "part_000", config |-> Configured, dir |-> <<>>, isFile |-> TRUE]}
  \cup {[service |-> "part_000", config |-> OwnerEndsInMain, dir |-> <<>>, isFile |-> FALSE]}

Calls == 1 .. MaxCalls

VARIABLES
  service,     \* which version of the service module the run uses
  config,      \* GITHUB_TOKEN, REPO_OWNER, REPO_NAME
  repo,        \* the backing store: entries of public/images by name
  imagesIsFile,\* the path public/images holds a single file, not a directory
  now,         \* the millisecond clock, as last read by new Date().getTime()
  call,        \* the calls in flight, by slot
  last,        \* the call that finished last, as it ended
  recent,      \* the URL the latest successful store returned, the URL the
               \* latest successful remove was given, and whether a bootstrap
               \* that found the directory absent has returned, while the
               \* repository has not changed since
  issued,      \* URLs returned by successful uploadImage calls
  faults,      \* failures injected so far
  declared,    \* the declared name handed to the sanitization, as a run of
               \* the sanitization specification draws it
  sanitized,   \* what the sanitization made of it, once it has run
  resanitized, \* what the sanitization made of the sanitized name, once run
  launched,    \* calls started so far, the fetchImages of the mount effect aside
  images,      \* useImages: the local image list (useState)
  hook,        \* useImages: the fetch in flight, error, isLoading, and the
               \* ids and added URLs handed out so far
  gallery,     \* ImageGallery: isFullscreenOpen and selectedImageIndex
  area,        \* UploadArea: isUploading, uploadProgress, errorMessage and
               \* the timers it has set
  app          \* App: activeTab and lastUploadedUrl

vars == <<service, config, repo, imagesIsFile, now, call, last, recent, issued, faults, launched, declared, sanitized, resanitized,
          images, hook, gallery, area, app>>

\* ------------------------------------------------------------ the backend
\* The content repository behind octokit.repos: getContent,
\* createOrUpdateFileContents, deleteFile.  A revision tag (sha) is the hash
\* of the content it names.
Sha(entry) == [blob |-> entry.data]

ImagesPrefix == ImagesDir \o <<"/">>

\* The entry name a path addresses under public/images, <<>> when none.
NameOf(path) ==
  IF startsWith(path, ImagesPrefix) /\ Len(path) > Len(ImagesPrefix)
  THEN SubSeq(path, Len(ImagesPrefix) + 1, Len(path))
  ELSE <<>>

NotFound == [kind |-> "error", status |-> 404]

\* What a call keeps of an answer: its kind, or the status of an error.
Answer(reply) ==
  IF reply.kind # "error" THEN reply.kind
  ELSE IF reply.status = 404 THEN "404"
  ELSE IF reply.status = 409 THEN "409"
  ELSE IF reply.status = 422 THEN "422"
  ELSE "500"
Failure(st) == [kind |-> "error", status |-> st]

\* A directory listing: one item per entry, in the order of the names' code
\* units (the order of a git tree).
RECURSIVE InTreeOrder(_)
InTreeOrder(names) ==
  IF names = {} THEN <<>>
  ELSE LET first == CHOOSE n \in names : \A m \in names \ {n} : CodeUnitLess(n, m)
       IN <<first>> \o InTreeOrder(names \ {first})

Listing(r) ==
  LET names == InTreeOrder(DOMAIN r)
  IN [i \in DOMAIN names |->
        [name |-> names[i], path |-> ImagesPrefix \o names[i], type |-> r[names[i]].type]]

getContent(r, isFile, path, fault) ==
  IF fault THEN Failure(500)
  ELSE IF path = <<>> THEN [kind |-> "dir", entries |-> <<>>]
  ELSE IF path = ImagesDir
    THEN IF isFile THEN [kind |-> "file", sha |-> Sha(FileEntry(0))]
         ELSE IF DOMAIN r = {} THEN NotFound
         ELSE [kind |-> "dir", entries |-> Listing(r)]
  ELSE IF NameOf(path) \in DOMAIN r
    THEN IF r[NameOf(path)].type = "file"
         THEN [kind |-> "file", sha |-> Sha(r[NameOf(path)])]
         ELSE [kind |-> "dir", entries |-> <<>>]
  ELSE NotFound

\* A write that supplies no sha creates the file.  On a path that holds a
\* file the store is the arbiter: it either refuses the write for want of
\* the sha (422) or takes it and replaces the content (overwrite); the
\* adapter controls neither.  There is no create-if-absent request.
createOrUpdateFileContents(r, isFile, path, data, overwrite, fault) ==
  IF fault THEN [reply |-> Failure(500), repo |-> r]
  ELSE IF isFile \/ NameOf(path) = <<>> THEN [reply |-> Failure(422), repo |-> r]
  ELSE IF NameOf(path) \in DOMAIN r
    THEN IF overwrite /\ r[NameOf(path)].type = "file"
         THEN [reply |-> [kind |-> "ok"],
               repo |-> [r EXCEPT ![NameOf(path)] = FileEntry(data)]]
         ELSE [reply |-> Failure(422), repo |-> r]
  ELSE [reply |-> [kind |-> "ok"], repo |-> (NameOf(path) :> FileEntry(data)) @@ r]

deleteFile(r, path, sha, fault) ==
  IF fault THEN [reply |-> Failure(500), repo |-> r]
  ELSE IF NameOf(path) \notin DOMAIN r THEN [reply |-> NotFound, repo |-> r]
  ELSE IF r[NameOf(path)].type # "file" \/ Sha(r[NameOf(path)]) # sha
    THEN [reply |-> Failure(409), repo |-> r]
  ELSE [reply |-> [kind |-> "ok"], repo |-> [n \in DOMAIN r \ {NameOf(path)} |-> r[n]]]


\* The sanitization has not run yet.
NotRun == <<"?">>

\* ------------------------------------------------------------ call records
NoRecent == [stored |-> <<>>, removed |-> <<>>, ensured |-> FALSE]

Idle == [op |-> "none", pc |-> "idle", path |-> <<>>, content |-> <<>>, cb |-> -1,
         progress |-> <<>>, net |-> <<>>, answers |-> <<>>, sha |-> <<>>, arg |-> <<>>,
         snap |-> <<>>, after |-> NoRecent, result |-> <<>>, err |-> "", wrote |-> FALSE, deleted |-> FALSE]

\* if (!GITHUB_TOKEN || !REPO_OWNER || !REPO_NAME)
ConfigMissing == config.token = <<>> \/ config.owner = <<>> \/ config.repo = <<>>

\* `https://raw.githubusercontent.com/${REPO_OWNER}/${REPO_NAME}/${BRANCH}/${path}`
UrlFor(cfg, path) ==
  RawHost \o cfg.owner \o <<"/">> \o cfg.repo \o <<"/">> \o BRANCH \o <<"/">> \o path

RawUrl(path) == UrlFor(config, path)

\* URLs a caller can hand to deleteImage that no store returned: one without
\* the branch marker, and the URL of the nested directory old.png.
NoMarkerUrl == <<"h", "t", "t", "p", ":", "/", "/", "e", ".", "x", "/", "a", ".", "p", "n", "g">>
ForeignUrls == {NoMarkerUrl, RawUrl(ImagesPrefix \o <<"o", "l", "d", ".", "p", "n", "g">>)}

\* reader.readAsDataURL(file): 'data:<type>;base64,<payload>' as its
\* comma-separated pieces; the payload piece is the base64 text of the data.
readAsDataURL(file) == <<"data:image;base64", [base64 |-> file.data]>>

\* (reader.result as string).split(',')[1]
Base64Of(file) == readAsDataURL(file)[2]

\* The backend decodes the base64 text it is sent.
Decode(content) == content.base64

\* if (onProgress) onProgress(v): the values handed to the callback.
Reported(rec, v) == IF rec.cb = -1 THEN rec.progress ELSE Append(rec.progress, v)

\* Whether the callback throws when handed v.
Throws(rec, v) == rec.cb = v

Failed(rec, msg) == [rec EXCEPT !.pc = "failed", !.err = msg]

\* A call takes the lowest free slot.
CanStart(c) ==
  /\ call[c].pc = "idle"
  /\ \A d \in Calls : d < c => call[d].pc # "idle"
  /\ launched < MaxOps

Finished(rec) == rec.pc \in {"done", "failed"}

\* A request is answered from the repository's contents, or fails for a
\* reason outside them (transport error, rate limit, file read error).
Inject(fault) ==
  /\ fault => faults < MaxFaults
  /\ faults' = IF fault THEN faults + 1 ELSE faults

\* A step of call c that leaves it as rec and the repository as r: a finished
\* call frees its slot and is kept in last.
Settle(c, r, rec) ==
  /\ repo' = r
  /\ call' = [call EXCEPT ![c] = IF Finished(rec) THEN Idle ELSE rec]
  /\ last' = IF Finished(rec) THEN rec ELSE last
  /\ recent' =
       LET base == IF r # repo THEN NoRecent ELSE recent
       IN IF rec.pc = "done" /\ rec.op = "upload" THEN [base EXCEPT !.stored = rec.result]
          ELSE IF rec.pc = "done" /\ rec.op = "delete" THEN [base EXCEPT !.removed = rec.arg]
          ELSE IF rec.pc = "done" /\ rec.op = "ensure" /\ DOMAIN repo = {} /\ ~imagesIsFile
            THEN [base EXCEPT !.ensured = TRUE]
          ELSE base

\* The path uploadImage composes: `public/images/${timestamp}-${safeFileName}`.
UploadPath(file, t) == ImagesPrefix \o Timestamp(t) \o <<"-">> \o safeFileName(file.name)

\* --------------------------------------------- uploadImage (part_000)
\* Lines 33-67: configuration and validation, the path, onProgress(30), up to
\* the await of the file read.
uploadImage_begin(c, file, cb, t) ==
  LET rec0 == [Idle EXCEPT !.op = "upload", !.cb = cb, !.arg = file]
      rec30 == [rec0 EXCEPT !.path = UploadPath(file, t), !.content = Base64Of(file),
                            !.progress = Reported(rec0, 30)]
  IN /\ service = "part_000"
     /\ CanStart(c)
     /\ launched' = launched + 1
     /\ now' = t
     /\ Settle(c, repo,
          IF ConfigMissing THEN Failed(rec0, "GitHub configuration is missing")
          ELSE IF ~isImageFile(file.name) THEN Failed(rec0, "Only image files are allowed")
          ELSE IF file.size > maxSize THEN Failed(rec0, "File size must be less than 25MB")
          ELSE IF Throws(rec0, 30) THEN Failed(rec30, "onProgress threw")
          ELSE [rec30 EXCEPT !.pc = "reading"])
     /\ UNCHANGED <<declared, sanitized, resanitized, service, config, imagesIsFile, issued, faults>>

\* Lines 69-79: the read resolves (or reader.onerror rejects), onProgress(60),
\* and the probe is sent.
uploadImage_read(c, fault) ==
  LET rec == call[c]
      rec60 == [rec EXCEPT !.progress = Reported(rec, 60)]
  IN /\ service = "part_000"
     /\ rec.op = "upload" /\ rec.pc = "reading"
     /\ Inject(fault)
     /\ Settle(c, repo,
          IF fault THEN Failed(rec, "Failed to upload image to GitHub")
          ELSE IF Throws(rec, 60) THEN Failed(rec60, "onProgress threw")
          ELSE [rec60 EXCEPT !.pc = "probing", !.net = Append(rec.net, "getContent")])
     /\ UNCHANGED <<declared, sanitized, resanitized, service, config, imagesIsFile, now, issued, launched>>

\* Lines 73-96: the probe's answer; only a 404 lets the write be sent.
uploadImage_probe(c, fault) ==
  LET got == call[c]
      reply == getContent(repo, imagesIsFile, got.path, fault)
      rec == [got EXCEPT !.answers = Append(got.answers, Answer(reply))]
  IN /\ service = "part_000"
     /\ got.op = "upload" /\ got.pc = "probing"
     /\ Inject(fault)
     /\ Settle(c, repo,
          IF reply.kind # "error" THEN Failed(rec, "A file with this name already exists")
          ELSE IF reply.status # 404 THEN Failed(rec, "RequestError")
          ELSE [rec EXCEPT !.pc = "writing",
                           !.net = Append(rec.net, "createOrUpdateFileContents")])
     /\ UNCHANGED <<declared, sanitized, resanitized, service, config, imagesIsFile, now, issued, launched>>

\* Lines 89-108: the write's answer, onProgress(100), the returned URL; the
\* clock is left to the caller, whose continuation may read it.
uploadImage_written(c, overwrite, fault) ==
  LET got == call[c]
      res == createOrUpdateFileContents(repo, imagesIsFile, got.path, Decode(got.content), overwrite, fault)
      rec == [got EXCEPT !.answers = Append(got.answers, Answer(res.reply))]
      ok == res.reply.kind = "ok"
      rec100 == [rec EXCEPT !.progress = Reported(rec, 100), !.wrote = TRUE]
  IN /\ service = "part_000"
     /\ got.op = "upload" /\ got.pc = "writing"
     /\ Inject(fault)
     /\ Settle(c, res.repo,
          IF ~ok THEN Failed(rec, "RequestError")
          ELSE IF Throws(rec, 100) THEN Failed(rec100, "onProgress threw")
          ELSE [rec100 EXCEPT !.pc = "done", !.result = RawUrl(rec.path)])
     /\ issued' = IF ok /\ ~Throws(rec, 100) THEN issued \cup {RawUrl(rec.path)} ELSE issued
     /\ UNCHANGED <<declared, sanitized, resanitized, service, config, imagesIsFile, launched>>

\* The same step of a caller that does not read the clock.
uploadImage_write(c, overwrite, fault) ==
  /\ uploadImage_written(c, overwrite, fault)
  /\ UNCHANGED now

\* --------------------------------------------- deleteImage (part_000)
\* Lines 113-130: configuration, the path after the branch marker, and the
\* fetch of the revision tag is sent.
deleteImage_begin(c, url) ==
  LET rec0 == [Idle EXCEPT !.op = "delete", !.arg = url]
      urlParts == split(url, BRANCH \o <<"/">>)
  IN /\ service = "part_000"
     /\ CanStart(c)
     /\ launched' = launched + 1
     /\ Settle(c, repo,
          IF ConfigMissing THEN Failed(rec0, "GitHub configuration is missing")
          ELSE IF Len(urlParts) < 2 THEN Failed(rec0, "Invalid image URL format")
          ELSE [rec0 EXCEPT !.pc = "fetching", !.path = urlParts[2],
                            !.net = <<"getContent">>])
     /\ UNCHANGED <<declared, sanitized, resanitized, service, config, imagesIsFile, now, issued, faults>>

\* deleteImage_fetch that returns without sending the delete.
deleteImage_fetch_noDelete(c, fault) ==
  LET got == call[c]
      reply == getContent(repo, imagesIsFile, got.path, fault)
      rec == [got EXCEPT !.answers = Append(got.answers, Answer(reply))]
  IN /\ service = "part_000"
     /\ got.op = "delete" /\ got.pc = "fetching"
     /\ Inject(fault)
     /\ Settle(c, repo,
          IF reply.kind = "error" THEN Failed(rec, "RequestError")
          ELSE [rec EXCEPT !.pc = "done"])
     /\ UNCHANGED <<declared, sanitized, resanitized, service, config, imagesIsFile, now, issued, launched>>

\* Lines 125-144: the fetch's answer; a file's sha goes into the delete
\* request, anything else ends the call in an error.
deleteImage_fetch(c, fault) ==
  LET got == call[c]
      reply == getContent(repo, imagesIsFile, got.path, fault)
      rec == [got EXCEPT !.answers = Append(got.answers, Answer(reply))]
  IN /\ service = "part_000"
     /\ got.op = "delete" /\ got.pc = "fetching"
     /\ Inject(fault)
     /\ Settle(c, repo,
          IF reply.kind = "error" THEN Failed(rec, "RequestError")
          ELSE IF reply.kind = "file"
            THEN [rec EXCEPT !.pc = "deleting", !.sha = reply.sha,
                             !.net = Append(rec.net, "deleteFile")]
          ELSE Failed(rec, "File not found or is a directory"))
     /\ UNCHANGED <<declared, sanitized, resanitized, service, config, imagesIsFile, now, issued, launched>>

\* deleteImage_delete whose request carries the sha the path holds when the
\* request is made, not the one the call fetched.
deleteImage_delete_currentSha(c, fault) ==
  LET got == call[c]
      name == NameOf(got.path)
      sha == IF name \in DOMAIN repo THEN Sha(repo[name]) ELSE got.sha
      res == deleteFile(repo, got.path, sha, fault)
      rec == [got EXCEPT !.answers = Append(got.answers, Answer(res.reply))]
  IN /\ service = "part_000"
     /\ got.op = "delete" /\ got.pc = "deleting"
     /\ Inject(fault)
     /\ Settle(c, res.repo,
          IF res.reply.kind = "ok" THEN [rec EXCEPT !.pc = "done", !.deleted = TRUE]
          ELSE Failed(rec, "RequestError"))
     /\ UNCHANGED <<declared, sanitized, resanitized, service, config, imagesIsFile, now, issued, launched>>

\* Lines 134-151: the delete's answer.
deleteImage_delete(c, fault) ==
  LET got == call[c]
      res == deleteFile(repo, got.path, got.sha, fault)
      rec == [got EXCEPT !.answers = Append(got.answers, Answer(res.reply))]
  IN /\ service = "part_000"
     /\ got.op = "delete" /\ got.pc = "deleting"
     /\ Inject(fault)
     /\ Settle(c, res.repo,
          IF res.reply.kind = "ok" THEN [rec EXCEPT !.pc = "done", !.deleted = TRUE]
          ELSE Failed(rec, "RequestError"))
     /\ UNCHANGED <<declared, sanitized, resanitized, service, config, imagesIsFile, now, issued, launched>>

\* ListFilter with the extension compared without toLowerCase.
ListFilter_caseSensitive(file) ==
  /\ file.type = "file"
  /\ ~shouldIgnoreFile(file.name)
  /\ \E extension \in SUPPORTED_IMAGE_EXTENSIONS : endsWith(file.name, extension)

\* ---------------------------------------- getUploadedImages (part_000)
\* contents.filter(...): files only, not ignored, image extension.
ListFilter(file) ==
  /\ file.type = "file"
  /\ ~shouldIgnoreFile(file.name)
  /\ isImageFile(file.name)

\* .sort((a, b) => b.name.localeCompare(a.name)): insertion of each item
\* before the first one the comparator does not put ahead of it.
RECURSIVE InsertSorted(_, _)
InsertSorted(sorted, item) ==
  IF sorted = <<>> THEN <<item>>
  ELSE IF localeCompare(item.name, Head(sorted).name) > 0
    THEN <<item>> \o sorted
    ELSE <<Head(sorted)>> \o InsertSorted(Tail(sorted), item)

RECURSIVE SortNewestFirst(_)
SortNewestFirst(items) ==
  IF items = <<>> THEN <<>>
  ELSE InsertSorted(SortNewestFirst(SubSeq(items, 1, Len(items) - 1)), items[Len(items)])

\* Lines 168-185: filter, sort, map to URLs.
ListedUrls(contents) ==
  LET kept == SelectSeq(contents, ListFilter)
      sorted == SortNewestFirst(kept)
  IN [i \in DOMAIN sorted |-> RawUrl(sorted[i].path)]

\* getUploadedImages_begin without the check of the configuration.
getUploadedImages_begin_noConfigCheck(c) ==
  LET rec0 == [Idle EXCEPT !.op = "list"]
  IN /\ service = "part_000"
     /\ CanStart(c)
     /\ launched' = launched + 1
     /\ Settle(c, repo, [rec0 EXCEPT !.pc = "listing", !.net = <<"getContent">>])
     /\ UNCHANGED <<declared, sanitized, resanitized, service, config, imagesIsFile, now, issued, faults>>

\* Lines 156-166 and 188-195: a missing configuration throws inside the try
\* and the catch returns []; otherwise the directory read is sent.
getUploadedImages_begin(c) ==
  LET rec0 == [Idle EXCEPT !.op = "list"]
  IN /\ service = "part_000"
     /\ CanStart(c)
     /\ launched' = launched + 1
     /\ Settle(c, repo,
          IF ConfigMissing THEN [rec0 EXCEPT !.pc = "done", !.err = "GitHub configuration is missing"]
          ELSE [rec0 EXCEPT !.pc = "listing", !.net = <<"getContent">>])
     /\ UNCHANGED <<declared, sanitized, resanitized, service, config, imagesIsFile, now, issued, faults>>

\* getUploadedImages_read that rethrows an error other than 404.
getUploadedImages_read_strict(c, fault) ==
  LET got == call[c]
      reply == getContent(repo, imagesIsFile, ImagesDir, fault)
      rec == [got EXCEPT !.answers = Append(got.answers, Answer(reply))]
  IN /\ service = "part_000"
     /\ got.op = "list" /\ got.pc = "listing"
     /\ Inject(fault)
     /\ Settle(c, repo,
          IF reply.kind = "dir"
          THEN [rec EXCEPT !.pc = "done", !.result = ListedUrls(reply.entries),
                           !.snap = reply.entries, !.after = recent]
          ELSE IF reply.kind = "error" /\ reply.status # 404
          THEN Failed(rec, "RequestError")
          ELSE [rec EXCEPT !.pc = "done", !.after = recent])
     /\ UNCHANGED <<declared, sanitized, resanitized, service, config, imagesIsFile, now, issued, launched>>

\* Lines 161-195: the directory read's answer.
getUploadedImages_read(c, fault) ==
  LET got == call[c]
      reply == getContent(repo, imagesIsFile, ImagesDir, fault)
      rec == [got EXCEPT !.answers = Append(got.answers, Answer(reply))]
  IN /\ service = "part_000"
     /\ got.op = "list" /\ got.pc = "listing"
     /\ Inject(fault)
     /\ Settle(c, repo,
          IF reply.kind = "dir"
          THEN [rec EXCEPT !.pc = "done", !.result = ListedUrls(reply.entries),
                           !.snap = reply.entries, !.after = recent]
          ELSE IF reply.kind = "error"
          THEN [rec EXCEPT !.pc = "done", !.err = "RequestError", !.after = recent]
          ELSE [rec EXCEPT !.pc = "done", !.after = recent])
     /\ UNCHANGED <<declared, sanitized, resanitized, service, config, imagesIsFile, now, issued, launched>>

\* ------------------------------------ ensureImagesDirectory (part_000)
\* Lines 229-241: configuration, and the directory read is sent.
ensureImagesDirectory_begin(c) ==
  LET rec0 == [Idle EXCEPT !.op = "ensure"]
  IN /\ service = "part_000"
     /\ CanStart(c)
     /\ launched' = launched + 1
     /\ Settle(c, repo,
          IF ConfigMissing THEN Failed(rec0, "Failed to ensure images directory exists")
          ELSE [rec0 EXCEPT !.pc = "checking", !.net = <<"getContent">>])
     /\ UNCHANGED <<declared, sanitized, resanitized, service, config, imagesIsFile, now, issued, faults>>

\* ensureImagesDirectory_check that sends the write after any failed read.
ensureImagesDirectory_check_anyError(c, fault) ==
  LET got == call[c]
      reply == getContent(repo, imagesIsFile, ImagesDir, fault)
      rec == [got EXCEPT !.answers = Append(got.answers, Answer(reply))]
  IN /\ service = "part_000"
     /\ got.op = "ensure" /\ got.pc = "checking"
     /\ Inject(fault)
     /\ Settle(c, repo,
          IF reply.kind # "error" THEN [rec EXCEPT !.pc = "done"]
          ELSE [rec EXCEPT !.pc = "creating", !.path = ImagesPrefix \o GitKeep,
                           !.net = Append(rec.net, "createOrUpdateFileContents")])
     /\ UNCHANGED <<declared, sanitized, resanitized, service, config, imagesIsFile, now, issued, launched>>

\* Lines 235-256: the read's answer; a 404 sends the write of .gitkeep.
ensureImagesDirectory_check(c, fault) ==
  LET got == call[c]
      reply == getContent(repo, imagesIsFile, ImagesDir, fault)
      rec == [got EXCEPT !.answers = Append(got.answers, Answer(reply))]
  IN /\ service = "part_000"
     /\ got.op = "ensure" /\ got.pc = "checking"
     /\ Inject(fault)
     /\ Settle(c, repo,
          IF reply.kind # "error" THEN [rec EXCEPT !.pc = "done"]
          ELSE IF reply.status = 404
            THEN [rec EXCEPT !.pc = "creating", !.path = ImagesPrefix \o GitKeep,
                             !.net = Append(rec.net, "createOrUpdateFileContents")]
          ELSE Failed(rec, "Failed to ensure images directory exists"))
     /\ UNCHANGED <<declared, sanitized, resanitized, service, config, imagesIsFile, now, issued, launched>>

\* ensureImagesDirectory_create with the write not awaited: the call returns
\* whatever the write's answer is.
ensureImagesDirectory_create_unawaited(c, overwrite, fault) ==
  LET got == call[c]
      res == createOrUpdateFileContents(repo, imagesIsFile, got.path, KeepData, overwrite, fault)
      rec == [got EXCEPT !.answers = Append(got.answers, Answer(res.reply))]
  IN /\ service = "part_000"
     /\ got.op = "ensure" /\ got.pc = "creating"
     /\ Inject(fault)
     /\ Settle(c, res.repo, [rec EXCEPT !.pc = "done", !.wrote = res.reply.kind = "ok"])
     /\ UNCHANGED <<declared, sanitized, resanitized, service, config, imagesIsFile, now, issued, launched>>

\* Lines 245-260: the write's answer.
ensureImagesDirectory_create(c, overwrite, fault) ==
  LET got == call[c]
      res == createOrUpdateFileContents(repo, imagesIsFile, got.path, KeepData, overwrite, fault)
      rec == [got EXCEPT !.answers = Append(got.answers, Answer(res.reply))]
  IN /\ service = "part_000"
     /\ got.op = "ensure" /\ got.pc = "creating"
     /\ Inject(fault)
     /\ Settle(c, res.repo,
          IF res.reply.kind = "ok" THEN [rec EXCEPT !.pc = "done", !.wrote = TRUE]
          ELSE Failed(rec, "Failed to ensure images directory exists"))
     /\ UNCHANGED <<declared, sanitized, resanitized, service, config, imagesIsFile, now, issued, launched>>


\* ------------------------------------------ uploadImage (uploadService.ts)
\* Lines 15-37: configuration, the path, onProgress(30); no validation.
uploadService_uploadImage_begin(c, file, cb, t) ==
  LET rec0 == [Idle EXCEPT !.op = "upload", !.cb = cb, !.arg = file]
      rec30 == [rec0 EXCEPT !.path = UploadPath(file, t), !.content = Base64Of(file),
                            !.progress = Reported(rec0, 30)]
  IN /\ service = "uploadService"
     /\ CanStart(c)
     /\ launched' = launched + 1
     /\ now' = t
     /\ Settle(c, repo,
          IF ConfigMissing THEN Failed(rec0, "Failed to upload image to GitHub")
          ELSE IF Throws(rec0, 30) THEN Failed(rec30, "Failed to upload image to GitHub")
          ELSE [rec30 EXCEPT !.pc = "reading"])
     /\ UNCHANGED <<declared, sanitized, resanitized, service, config, imagesIsFile, issued, faults>>

\* Lines 39-50: the read resolves, onProgress(60), and the write is sent: no
\* probe.
uploadService_uploadImage_read(c, fault) ==
  LET rec == call[c]
      rec60 == [rec EXCEPT !.progress = Reported(rec, 60)]
  IN /\ service = "uploadService"
     /\ rec.op = "upload" /\ rec.pc = "reading"
     /\ Inject(fault)
     /\ Settle(c, repo,
          IF fault THEN Failed(rec, "Failed to upload image to GitHub")
          ELSE IF Throws(rec, 60) THEN Failed(rec60, "Failed to upload image to GitHub")
          ELSE [rec60 EXCEPT !.pc = "writing", !.net = <<"createOrUpdateFileContents">>])
     /\ UNCHANGED <<declared, sanitized, resanitized, service, config, imagesIsFile, now, issued, launched>>

\* Lines 43-59: the write's answer, onProgress(100), the returned URL.
uploadService_uploadImage_write(c, overwrite, fault) ==
  LET got == call[c]
      res == createOrUpdateFileContents(repo, imagesIsFile, got.path, Decode(got.content), overwrite, fault)
      rec == [got EXCEPT !.answers = Append(got.answers, Answer(res.reply))]
      ok == res.reply.kind = "ok"
      rec100 == [rec EXCEPT !.progress = Reported(rec, 100), !.wrote = TRUE]
  IN /\ service = "uploadService"
     /\ got.op = "upload" /\ got.pc = "writing"
     /\ Inject(fault)
     /\ Settle(c, res.repo,
          IF ~ok THEN Failed(rec, "Failed to upload image to GitHub")
          ELSE IF Throws(rec, 100) THEN Failed(rec100, "Failed to upload image to GitHub")
          ELSE [rec100 EXCEPT !.pc = "done", !.result = RawUrl(rec.path)])
     /\ issued' = IF ok /\ ~Throws(rec, 100) THEN issued \cup {RawUrl(rec.path)} ELSE issued
     /\ UNCHANGED <<declared, sanitized, resanitized, service, config, imagesIsFile, now, launched>>

\* ------------------------------------------ deleteImage (uploadService.ts)
\* Lines 64-77: configuration; url.split(`${BRANCH}/`)[1] with no check of the
\* number of pieces, so the path is undefined for a URL without the marker and
\* the request then addresses the repository's root.
uploadService_deleteImage_begin(c, url) ==
  LET rec0 == [Idle EXCEPT !.op = "delete", !.arg = url]
      urlParts == split(url, BRANCH \o <<"/">>)
  IN /\ service = "uploadService"
     /\ CanStart(c)
     /\ launched' = launched + 1
     /\ Settle(c, repo,
          IF ConfigMissing THEN Failed(rec0, "Failed to delete image from GitHub")
          ELSE [rec0 EXCEPT !.pc = "fetching",
                            !.path = IF Len(urlParts) >= 2 THEN urlParts[2] ELSE <<>>,
                            !.net = <<"getContent">>])
     /\ UNCHANGED <<declared, sanitized, resanitized, service, config, imagesIsFile, now, issued, faults>>

\* Lines 72-93: the fetch's answer; an answer without sha (a directory) skips
\* the delete and the call returns normally.
uploadService_deleteImage_fetch(c, fault) ==
  LET got == call[c]
      reply == getContent(repo, imagesIsFile, got.path, fault)
      rec == [got EXCEPT !.answers = Append(got.answers, Answer(reply))]
  IN /\ service = "uploadService"
     /\ got.op = "delete" /\ got.pc = "fetching"
     /\ Inject(fault)
     /\ Settle(c, repo,
          IF reply.kind = "error" THEN Failed(rec, "Failed to delete image from GitHub")
          ELSE IF reply.kind = "file"
            THEN [rec EXCEPT !.pc = "deleting", !.sha = reply.sha,
                             !.net = Append(rec.net, "deleteFile")]
          ELSE [rec EXCEPT !.pc = "done"])
     /\ UNCHANGED <<declared, sanitized, resanitized, service, config, imagesIsFile, now, issued, launched>>

\* Lines 81-93: the delete's answer.
uploadService_deleteImage_delete(c, fault) ==
  LET got == call[c]
      res == deleteFile(repo, got.path, got.sha, fault)
      rec == [got EXCEPT !.answers = Append(got.answers, Answer(res.reply))]
  IN /\ service = "uploadService"
     /\ got.op = "delete" /\ got.pc = "deleting"
     /\ Inject(fault)
     /\ Settle(c, res.repo,
          IF res.reply.kind = "ok" THEN [rec EXCEPT !.pc = "done", !.deleted = TRUE]
          ELSE Failed(rec, "Failed to delete image from GitHub"))
     /\ UNCHANGED <<declared, sanitized, resanitized, service, config, imagesIsFile, now, issued, launched>>

\* ------------------------------------ getUploadedImages (uploadService.ts)
uploadService_ListFilter(file) == file.type = "file"

\* Lines 110-114: files only, in the order of the answer.
uploadService_ListedUrls(contents) ==
  LET kept == SelectSeq(contents, uploadService_ListFilter)
  IN [i \in DOMAIN kept |-> RawUrl(kept[i].path)]

\* Lines 98-108 and 117-120.
uploadService_getUploadedImages_begin(c) ==
  LET rec0 == [Idle EXCEPT !.op = "list"]
  IN /\ service = "uploadService"
     /\ CanStart(c)
     /\ launched' = launched + 1
     /\ Settle(c, repo,
          IF ConfigMissing THEN [rec0 EXCEPT !.pc = "done", !.err = "GitHub configuration is missing"]
          ELSE [rec0 EXCEPT !.pc = "listing", !.net = <<"getContent">>])
     /\ UNCHANGED <<declared, sanitized, resanitized, service, config, imagesIsFile, now, issued, faults>>

\* Lines 103-120: the directory read's answer.
uploadService_getUploadedImages_read(c, fault) ==
  LET got == call[c]
      reply == getContent(repo, imagesIsFile, ImagesDir, fault)
      rec == [got EXCEPT !.answers = Append(got.answers, Answer(reply))]
  IN /\ service = "uploadService"
     /\ got.op = "list" /\ got.pc = "listing"
     /\ Inject(fault)
     /\ Settle(c, repo,
          IF reply.kind = "dir"
          THEN [rec EXCEPT !.pc = "done", !.result = uploadService_ListedUrls(reply.entries),
                           !.snap = reply.entries, !.after = recent]
          ELSE IF reply.kind = "error"
          THEN [rec EXCEPT !.pc = "done", !.err = "RequestError", !.after = recent]
          ELSE [rec EXCEPT !.pc = "done", !.after = recent])
     /\ UNCHANGED <<declared, sanitized, resanitized, service, config, imagesIsFile, now, issued, launched>>

\* ------------------------------------------------- useImages (the hook)
\* No fetchImages call is in flight.
NoFetch == [pc |-> "idle", urls |-> <<>>]

\* The state of the hook besides the image list, at the first render: whether
\* the mount effect has run, where its fetchImages call is and the URLs of
\* its answer on the way to the client, error, isLoading, the ids handed
\* out, the URLs addImage has added, the id each deleteImage call in flight
\* was given, and how the finished ones ended.
Unmounted == [mounted |-> FALSE, fetch |-> NoFetch, error |-> "",
              isLoading |-> TRUE, ids |-> 0, added |-> {},
              deleting |-> [c \in Calls |-> 0], ended |-> <<>>]

\* ImageGallery's state when it mounts; a null selectedImageIndex is -1.
Closed == [open |-> FALSE, index |-> -1]

\* UploadArea's state when it mounts, with no timer set.  interval, orphans
\* and resets are the timers that exist: the interval of the upload in each
\* slot, the intervals of uploads that have failed, and the timeouts of the
\* reset after a success; own, ownOrphans and ownResets are the ones among
\* them set by the instance that is mounted.  drops counts the uploads the
\* upload area has started in the run.
Resting == [isUploading |-> FALSE, uploadProgress |-> 0, errorMessage |-> "",
            interval |-> [c \in Calls |-> FALSE], own |-> [c \in Calls |-> FALSE],
            orphans |-> 0, ownOrphans |-> 0, resets |-> 0, ownResets |-> 0,
            failed |-> FALSE, drops |-> 0]

\* App's state at the first render (lines 11-12); a null URL is <<>>.
FirstRender == [activeTab |-> "upload", lastUploadedUrl |-> <<>>]

\* The state of App and of the two components it mounts.
views == <<gallery, area, app>>

\* The variables of the user interface.
ui == <<images, hook, gallery, area, app>>

\* ImageGallery.tsx lines 195-252: the render of the fullscreen view reads
\* images[selectedImageIndex].url (line 234), which throws when the view is
\* open on an index past the end of a list that is not empty (an empty list
\* returns at line 82).  No error boundary catches it: React unmounts the
\* tree, so from then on nothing is rendered, no handler can be called, and
\* the state updates of the calls still in flight are ignored.
RenderThrew ==
  /\ app.activeTab = "gallery"
  /\ images # <<>>
  /\ gallery.open
  /\ gallery.index >= Len(images)

\* A state update: old is kept once the tree has been unmounted.
setState(old, new) == IF RenderThrew THEN old ELSE new

\* ------------------------------------------------------- the state machine
Init ==
  /\ \E dep \in Deployments :
       /\ service = dep.service
       /\ config = dep.config
       /\ repo = dep.dir
       /\ imagesIsFile = dep.isFile
  /\ now = 1
  /\ call = [c \in Calls |-> Idle]
  /\ last = Idle
  /\ recent = NoRecent
  /\ issued = IF EarlierName \in DOMAIN repo /\ ~ConfigMissing
              THEN {RawUrl(ImagesPrefix \o EarlierName)} ELSE {}
  /\ faults = 0
  /\ declared = <<>>
  /\ sanitized = NotRun
  /\ resanitized = NotRun
  /\ launched = 0
  /\ images = <<>>
  /\ hook = Unmounted
  /\ gallery = Closed
  /\ area = Resting
  /\ app = FirstRender

\* URLs a caller can hand to deleteImage: the ones store returned, the ones
\* the list that finished last returned, and foreign ones.
KnownUrls ==
  issued \cup ForeignUrls
  \cup (IF last.op = "list" THEN Range(last.result) ELSE {})

Next ==
  \/ \E c \in Calls, u \in Uploads, t \in now .. MaxTime : uploadImage_begin(c, u.file, u.cb, t) /\ UNCHANGED ui
  \/ \E c \in Calls, fault \in BOOLEAN : uploadImage_read(c, fault) /\ UNCHANGED ui
  \/ \E c \in Calls, fault \in BOOLEAN : uploadImage_probe(c, fault) /\ UNCHANGED ui
  \/ \E c \in Calls, overwrite \in BOOLEAN, fault \in BOOLEAN : uploadImage_write(c, overwrite, fault) /\ UNCHANGED ui
  \/ \E c \in Calls, url \in KnownUrls : deleteImage_begin(c, url) /\ UNCHANGED ui
  \/ \E c \in Calls, fault \in BOOLEAN : deleteImage_fetch(c, fault) /\ UNCHANGED ui
  \/ \E c \in Calls, fault \in BOOLEAN : deleteImage_delete(c, fault) /\ UNCHANGED ui
  \/ \E c \in Calls : getUploadedImages_begin(c) /\ UNCHANGED ui
  \/ \E c \in Calls, fault \in BOOLEAN : getUploadedImages_read(c, fault) /\ UNCHANGED ui
  \/ \E c \in Calls : ensureImagesDirectory_begin(c) /\ UNCHANGED ui
  \/ \E c \in Calls, fault \in BOOLEAN : ensureImagesDirectory_check(c, fault) /\ UNCHANGED ui
  \/ \E c \in Calls, overwrite \in BOOLEAN, fault \in BOOLEAN : ensureImagesDirectory_create(c, overwrite, fault) /\ UNCHANGED ui
  \/ \E c \in Calls, u \in Uploads, t \in now .. MaxTime :
       uploadService_uploadImage_begin(c, u.file, u.cb, t) /\ UNCHANGED ui
  \/ \E c \in Calls, fault \in BOOLEAN : uploadService_uploadImage_read(c, fault) /\ UNCHANGED ui
  \/ \E c \in Calls, overwrite \in BOOLEAN, fault \in BOOLEAN : uploadService_uploadImage_write(c, overwrite, fault) /\ UNCHANGED ui
  \/ \E c \in Calls, url \in KnownUrls : uploadService_deleteImage_begin(c, url) /\ UNCHANGED ui
  \/ \E c \in Calls, fault \in BOOLEAN : uploadService_deleteImage_fetch(c, fault) /\ UNCHANGED ui
  \/ \E c \in Calls, fault \in BOOLEAN : uploadService_deleteImage_delete(c, fault) /\ UNCHANGED ui
  \/ \E c \in Calls : uploadService_getUploadedImages_begin(c) /\ UNCHANGED ui
  \/ \E c \in Calls, fault \in BOOLEAN : uploadService_getUploadedImages_read(c, fault) /\ UNCHANGED ui

Spec == Init /\ [][Next]_vars

\* ------------------------------------------- the sanitization on its own
\* Characters of the declared names: a letter of each case, a digit, the two
\* punctuation marks the replace keeps, and three it does not.
NameChars == {"a", "Z", "0", ".", "-", "_", " ", "/"}

DeclaredNames == UNION {[1 .. n -> NameChars] : n \in 0 .. MaxLen}

SanInit ==
  /\ declared \in DeclaredNames
  /\ sanitized = NotRun
  /\ resanitized = NotRun
  /\ service = "part_000"
  /\ config = Configured
  /\ repo = <<>>
  /\ imagesIsFile = FALSE
  /\ now = 1
  /\ call = [c \in Calls |-> Idle]
  /\ last = Idle
  /\ recent = NoRecent
  /\ issued = {}
  /\ faults = 0
  /\ launched = 0
  /\ images = <<>>
  /\ hook = Unmounted
  /\ gallery = Closed
  /\ area = Resting
  /\ app = FirstRender

\* const safeFileName = file.name.replace(/[^a-zA-Z0-9.-]/g, '_')
Sanitize ==
  /\ sanitized = NotRun
  /\ sanitized' = safeFileName(declared)
  /\ UNCHANGED <<declared, resanitized, service, config, repo, imagesIsFile, now, call, last,
                 recent, issued, faults, launched, images, hook, gallery, area, app>>

\* The sanitized name handed to the same replace again, as a second upload of
\* a file that carries the sanitized name does.
Resanitize ==
  /\ sanitized # NotRun
  /\ resanitized = NotRun
  /\ resanitized' = safeFileName(sanitized)
  /\ UNCHANGED <<declared, sanitized, service, config, repo, imagesIsFile, now, call, last,
                 recent, issued, faults, launched, images, hook, gallery, area, app>>

SanNext ==
  \/ Sanitize
  \/ Resanitize

SanSpec == SanInit /\ [][SanNext]_vars

\* --------------------------------------- the repository has other writers
\* A push by another writer of the repository replaces the content of a file
\* of public/images while a deleteImage call holds the sha it fetched for it
\* and has not had its delete answered.
OtherWriter(n) ==
  /\ \E c \in Calls :
       /\ call[c].op = "delete"
       /\ call[c].pc = "deleting"
       /\ NameOf(call[c].path) = n
  /\ n \in DOMAIN repo
  /\ repo[n].type = "file"
  /\ repo[n].data # OtherData
  /\ repo' = [repo EXCEPT ![n] = FileEntry(OtherData)]
  /\ recent' = NoRecent
  /\ UNCHANGED <<declared, sanitized, resanitized, service, config, imagesIsFile, now, call,
                 last, issued, faults, launched, images, hook, gallery, area, app>>

NextShared ==
  \/ Next
  \/ \E n \in DOMAIN repo : OtherWriter(n)

SpecShared == Init /\ [][NextShared]_vars

\* ------------------------------------------ useImages over the service
\* parseGitHubImageInfo (lines 29-44): uploadedAt is new Date(), read on every
\* call (line 34; t is the clock it shows), and replaced by the 13-digit
\* prefix of the file name when the name has the form <13 digits>-<name>.
\* Dates are kept as their 13 digits.
parseGitHubImageInfo(url, t) ==
  LET pieces == split(url, <<"/">>)
      filename == pieces[Len(pieces)]
  IN IF /\ Len(filename) >= 15
        /\ \A i \in 1 .. 13 : filename[i] \in Range(Digits)
        /\ filename[14] = "-"
     THEN SubSeq(filename, 1, 13)
     ELSE Timestamp(t)

\* The values n successive reads of the clock can give: none before the one
\* last read, none before its predecessor.
ClockReads(n) ==
  {reads \in [1 .. n -> now .. MaxTime] : \A i \in 1 .. (n - 1) : reads[i] <= reads[i + 1]}

DigitKeys(d) == [i \in DOMAIN d |-> IndexIn(d[i], Digits)]

\* newImages.sort((a, b) => b.uploadedAt.getTime() - a.uploadedAt.getTime()):
\* a stable sort, newest first.
RECURSIVE InsertByDate(_, _)
InsertByDate(sorted, item) ==
  IF sorted = <<>> THEN <<item>>
  ELSE IF CompareKeys(DigitKeys(item.uploadedAt), DigitKeys(Head(sorted).uploadedAt)) > 0
    THEN <<item>> \o sorted
    ELSE <<Head(sorted)>> \o InsertByDate(Tail(sorted), item)

RECURSIVE SortByDate(_)
SortByDate(items) ==
  IF items = <<>> THEN <<>>
  ELSE InsertByDate(SortByDate(SubSeq(items, 1, Len(items) - 1)), items[Len(items)])

\* Lines 55-69: the image records made of the listed URLs (id, url and
\* uploadedAt; name, size and type are not kept).
newImages(urls, reads) ==
  SortByDate([i \in DOMAIN urls |->
     [id |-> hook.ids + i, url |-> urls[i],
      uploadedAt |-> parseGitHubImageInfo(urls[i], reads[i])]])

\* What the hook's steps leave alone in the service.
HookFrame == UNCHANGED <<declared, sanitized, resanitized, service, config, imagesIsFile, now,
                         call, last, issued>>

\* Lines 46-52 and 80-82: fetchImages, which the mount effect calls once (App
\* takes images, addImage and deleteImage of the hook and never
\* refreshImages): it sets isLoading, clears the error and calls
\* ensureImagesDirectory, which throws at once without configuration and
\* sends its directory read otherwise.
useImages_fetchImages ==
  /\ service = "part_000"
  /\ ~hook.mounted
  /\ hook' = IF ConfigMissing
             THEN [hook EXCEPT !.mounted = TRUE,
                               !.error = "Failed to ensure images directory exists",
                               !.isLoading = FALSE]
             ELSE [hook EXCEPT !.mounted = TRUE, !.error = "", !.isLoading = TRUE,
                               !.fetch.pc = "ensuring"]
  /\ UNCHANGED <<images, repo, recent, launched, faults>>
  /\ UNCHANGED views
  /\ HookFrame

\* ensureImagesDirectory's read is answered: a 404 sends the write of
\* .gitkeep, another error ends fetchImages in its catch, and an answer lets
\* it call getUploadedImages, which sends its directory read.
useImages_fetchImages_ensured(fault) ==
  LET reply == getContent(repo, imagesIsFile, ImagesDir, fault)
  IN /\ hook.fetch.pc = "ensuring"
     /\ Inject(fault)
     /\ hook' = IF reply.kind # "error" THEN [hook EXCEPT !.fetch.pc = "listing"]
                ELSE IF reply.status = 404 THEN [hook EXCEPT !.fetch.pc = "creating"]
                ELSE [hook EXCEPT !.fetch = NoFetch,
                        !.isLoading = setState(@, FALSE),
                        !.error = setState(@, "Failed to ensure images directory exists")]
     /\ UNCHANGED <<images, repo, recent, launched>>
     /\ UNCHANGED views
     /\ HookFrame

\* The write of .gitkeep is answered.
useImages_fetchImages_created(overwrite, fault) ==
  LET res == createOrUpdateFileContents(repo, imagesIsFile, ImagesPrefix \o GitKeep, KeepData, overwrite, fault)
  IN /\ hook.fetch.pc = "creating"
     /\ Inject(fault)
     /\ repo' = res.repo
     /\ recent' = IF res.repo # repo THEN NoRecent ELSE recent
     /\ hook' = IF res.reply.kind = "ok" THEN [hook EXCEPT !.fetch.pc = "listing"]
                ELSE [hook EXCEPT !.fetch = NoFetch,
                        !.isLoading = setState(@, FALSE),
                        !.error = setState(@, "Failed to ensure images directory exists")]
     /\ UNCHANGED <<images, launched>>
     /\ UNCHANGED views
     /\ HookFrame

\* The backend serves getUploadedImages's directory read: the answer, on its
\* way to the client, is the directory as it is now.
useImages_fetchImages_served(fault) ==
  LET reply == getContent(repo, imagesIsFile, ImagesDir, fault)
  IN /\ hook.fetch.pc = "listing"
     /\ Inject(fault)
     /\ hook' = [hook EXCEPT !.fetch =
                   [pc |-> "answered",
                    urls |-> IF reply.kind = "dir" THEN ListedUrls(reply.entries) ELSE <<>>]]
     /\ UNCHANGED <<images, repo, recent, launched>>
     /\ UNCHANGED views
     /\ HookFrame

\* Lines 54-77: the answer arrives: getUploadedImages returns the URLs, the
\* map reads the clock once for each of them (reads), and
\* setImages(newImages) replaces the list.
useImages_fetchImages_delivered(reads) ==
  /\ hook.fetch.pc = "answered"
  /\ reads \in ClockReads(Len(hook.fetch.urls))
  /\ images' = setState(images, newImages(hook.fetch.urls, reads))
  /\ hook' = [hook EXCEPT !.fetch = NoFetch, !.isLoading = setState(@, FALSE),
                          !.ids = hook.ids + Len(hook.fetch.urls)]
  /\ now' = IF reads = <<>> THEN now ELSE reads[Len(reads)]
  /\ UNCHANGED <<repo, recent, launched, faults>>
  /\ UNCHANGED views
  /\ UNCHANGED <<declared, sanitized, resanitized, service, config, imagesIsFile, call, last,
                 issued>>

\* Lines 84-96: addImage(url): uploadedAt is new Date() (line 91; t is the
\* clock it shows), then setImages(prev => [newImage, ...prev]).
addImage(url, t) ==
  /\ now' = t
  /\ images' = setState(images,
       <<[id |-> hook.ids + 1, url |-> url, uploadedAt |-> Timestamp(t)]>> \o images)
  /\ hook' = [hook EXCEPT !.ids = hook.ids + 1, !.added = hook.added \cup {url}]

\* App.tsx lines 14-22: handleUploadSuccess(imageUrl), the onUploadSuccess
\* of UploadArea.
handleUploadSuccess(imageUrl, t) ==
  /\ addImage(imageUrl, t)
  /\ app' = setState(app, [app EXCEPT !.lastUploadedUrl = imageUrl])

\* Lines 104-112: what deleteImage(id) does to the hook's state in a step of
\* its backend call c: nothing while the call is pending, the filter of the
\* list once it has resolved, setError and the rethrow once it has rejected.
useImages_deleteImage_settled(c, id, url) ==
  IF call'[c].pc # "idle"
  THEN /\ images' = images
       /\ hook' = [hook EXCEPT !.deleting[c] = id]
  ELSE IF last'.pc = "done"
  THEN /\ images' = setState(images, SelectSeq(images, LAMBDA img : img.id # id))
       /\ hook' = [hook EXCEPT !.deleting[c] = 0,
                      !.ended = Append(@, [id |-> id, url |-> url, how |-> "removed"])]
  ELSE /\ images' = images
       /\ hook' = [hook EXCEPT !.deleting[c] = 0, !.error = setState(@, last'.err),
                      !.ended = Append(@, [id |-> id, url |-> url, how |-> "error"])]

\* What a deleteImage(id) that throws 'Image not found' leaves alone:
\* everything but the record of how it ended.
NotFoundFrame ==
  UNCHANGED <<service, config, repo, imagesIsFile, now, call, last, recent, issued, faults,
              launched, declared, sanitized, resanitized, images>>

\* Lines 98-104: deleteImage(id), which the delete button of an image of the
\* gallery calls through handleDeleteImage (App.tsx lines 24-26) with the id
\* of that image: without an image of that id in the list it throws 'Image
\* not found' before anything is sent; otherwise it calls the service's
\* deleteImage with the URL of the image.
useImages_deleteImage(c, id) ==
  LET found == {i \in DOMAIN images : images[i].id = id}
      imageToDelete == images[CHOOSE i \in found : \A j \in found : i <= j]
  IN /\ hook.mounted
     /\ ~RenderThrew
     /\ app.activeTab = "gallery"
     /\ IF found = {}
        THEN /\ hook' = [hook EXCEPT !.ended =
                          Append(@, [id |-> id, url |-> <<>>, how |-> "notfound"])]
             /\ NotFoundFrame
        ELSE /\ deleteImage_begin(c, imageToDelete.url)
             /\ useImages_deleteImage_settled(c, id, imageToDelete.url)
     /\ UNCHANGED views

\* The fetch of the revision tag of a deleteImage(id) is answered.
useImages_deleteImage_fetched(c, fault) ==
  /\ hook.deleting[c] # 0
  /\ deleteImage_fetch(c, fault)
  /\ useImages_deleteImage_settled(c, hook.deleting[c], call[c].arg)
  /\ UNCHANGED views

\* The delete request of a deleteImage(id) is answered.
useImages_deleteImage_deleted(c, fault) ==
  /\ hook.deleting[c] # 0
  /\ deleteImage_delete(c, fault)
  /\ useImages_deleteImage_settled(c, hook.deleting[c], call[c].arg)
  /\ UNCHANGED views

\* ------------------------------------------------------- App (the tabs)
\* What the handlers of App and of its components leave alone in the service
\* and the hook.
ViewFrame ==
  UNCHANGED <<service, config, repo, imagesIsFile, now, call, last, recent, issued, faults,
              launched, declared, sanitized, resanitized, images, hook>>

\* UploadArea is unmounted: its state is gone, and the timers it has set
\* stay set (and the count of the run's uploads goes on).
Detached(a) ==
  [Resting EXCEPT !.interval = a.interval, !.orphans = a.orphans, !.resets = a.resets,
                  !.drops = a.drops]

\* App.tsx lines 36 and 46: setActiveTab(tab).  Lines 58-71 render UploadArea
\* on the upload tab and ImageGallery on the gallery tab, so a change of tab
\* unmounts the one and mounts the other with its initial state.
App_setActiveTab(tab) ==
  /\ hook.mounted
  /\ ~RenderThrew
  /\ app' = [app EXCEPT !.activeTab = tab]
  /\ area' = IF tab = "gallery" THEN Detached(area) ELSE area
  /\ gallery' = IF tab = "upload" THEN Closed ELSE gallery
  /\ ViewFrame

\* ------------------------------------------------ ImageGallery (component)
\* What the gallery's handlers leave alone: everything but its own state.
GalleryFrame ==
  /\ ViewFrame
  /\ UNCHANGED <<area, app>>

\* Lines 208-252: the fullscreen view is rendered, with its handlers, when
\* the list is not empty (line 82), isFullscreenOpen is set and the selected
\* index is not null; rendering reads images[selectedImageIndex].url, which
\* throws when the index is not one of the list.
FullscreenRendered ==
  /\ app.activeTab = "gallery"
  /\ images # <<>>
  /\ gallery.open
  /\ gallery.index >= 0 /\ gallery.index < Len(images)

\* Lines 56-59: openFullscreen(index), from the button of the image at index.
ImageGallery_openFullscreen(index) ==
  /\ app.activeTab = "gallery"
  /\ ~RenderThrew
  /\ index \in 0 .. (Len(images) - 1)
  /\ gallery' = [open |-> TRUE, index |-> index]
  /\ GalleryFrame

\* Lines 61-64: closeFullscreen, from the view's close button, its backdrop
\* or the Escape key.
ImageGallery_closeFullscreen ==
  /\ FullscreenRendered
  /\ gallery' = [open |-> FALSE, index |-> -1]
  /\ GalleryFrame

\* Lines 66-74: navigateImage(direction), from the view's buttons or the
\* arrow keys.
ImageGallery_navigateImage(direction) ==
  /\ FullscreenRendered
  /\ gallery.index # -1
  /\ gallery' = [gallery EXCEPT !.index =
       IF direction = "prev"
       THEN (IF gallery.index > 0 THEN gallery.index - 1 ELSE Len(images) - 1)
       ELSE (IF gallery.index < Len(images) - 1 THEN gallery.index + 1 ELSE 0)]
  /\ GalleryFrame

\* -------------------------------------------------- UploadArea (component)
\* validateFile's list of MIME types.
validTypes == {"image/jpeg", "image/png", "image/gif", "image/webp", "image/svg+xml"}

\* A file a user can drop or select, with the MIME type the browser gives
\* it.  The last one passes validateFile and is refused by the service.
Dropped == {
  [file |-> PhotoOne, type |-> "image/png"],
  [file |-> PhotoTwo, type |-> "image/png"],
  [file |-> NotAnImage, type |-> "text/plain"],
  [file |-> NotAnImage, type |-> "image/png"] }

\* e.dataTransfer.files, e.target.files: no file, or one of the files.
FileLists == {<<>>} \cup {<<item>> : item \in Dropped}

\* Lines 33-47: validateFile.
validateFile(item) ==
  /\ item.type \in validTypes
  /\ item.file.size <= 10 * 1024 * 1024

\* What the component's timers leave alone: everything but its own state.
AreaFrame ==
  /\ ViewFrame
  /\ UNCHANGED <<gallery, app>>

\* Lines 73-90 and 116-133: what a step of the upload in slot c does to the
\* component, whose state is base before it, and to App: the progress
\* callback while the call lasts; clearInterval, 100, onUploadSuccess and the
\* timeout of the reset once it has resolved; the catch once it has rejected,
\* which leaves the interval set.  The state updates of an upload whose
\* component has been unmounted since are ignored.  t is the clock addImage
\* reads when the call has resolved; the other branches do not read it.
UploadArea_followed(c, base, t) ==
  LET rec == IF call'[c].pc = "idle" THEN last' ELSE call'[c]
      shown == IF Len(rec.progress) > Len(call[c].progress)
               THEN rec.progress[Len(rec.progress)]
               ELSE base.uploadProgress
      left == IF base.interval[c] THEN 1 ELSE 0
  IN IF call'[c].pc # "idle"
     THEN /\ area' = IF base.own[c] THEN [base EXCEPT !.uploadProgress = shown] ELSE base
          /\ UNCHANGED <<images, hook, app>>
     ELSE IF last'.pc = "done"
     THEN /\ area' = IF base.own[c]
                     THEN [base EXCEPT !.interval[c] = FALSE, !.own[c] = FALSE,
                                       !.uploadProgress = 100,
                                       !.resets = @ + 1, !.ownResets = @ + 1]
                     ELSE [base EXCEPT !.interval[c] = FALSE, !.resets = @ + 1]
          /\ handleUploadSuccess(last'.result, t)
     ELSE /\ area' = IF base.own[c]
                     THEN [base EXCEPT !.errorMessage = "Upload failed. Please try again.",
                                       !.isUploading = FALSE, !.uploadProgress = 0,
                                       !.interval[c] = FALSE, !.own[c] = FALSE,
                                       !.orphans = @ + left, !.ownOrphans = @ + left,
                                       !.failed = TRUE]
                     ELSE [base EXCEPT !.interval[c] = FALSE, !.orphans = @ + left]
          /\ UNCHANGED <<images, hook, app>>

\* Lines 49-93: handleDrop.  The message is cleared; without a file nothing
\* else happens; a file validateFile refuses shows its message; for a file
\* it accepts isUploading is set, the interval of the simulated progress is
\* set and uploadImage is called (in a free slot c, at a time t of the
\* clock; a run starts at most MaxDrops uploads here).
UploadArea_handleDrop(files) ==
  /\ hook.mounted
  /\ app.activeTab = "upload"
  /\ IF files = <<>>
     THEN /\ area' = [area EXCEPT !.errorMessage = ""]
          /\ AreaFrame
     ELSE IF ~validateFile(files[1])
     THEN /\ area' = [area EXCEPT !.errorMessage =
                        IF files[1].type \notin validTypes
                        THEN "Only image files are allowed (JPEG, PNG, GIF, WEBP, SVG)"
                        ELSE "File size must be less than 10MB"]
          /\ AreaFrame
     ELSE \E c \in Calls, t \in now .. MaxTime :
            /\ area.drops < MaxDrops
            /\ uploadImage_begin(c, files[1].file, 0, t)
            /\ UploadArea_followed(c, [area EXCEPT !.errorMessage = "", !.isUploading = TRUE,
                                                   !.interval[c] = TRUE, !.own[c] = TRUE,
                                                   !.failed = FALSE, !.drops = @ + 1], t)
            /\ UNCHANGED gallery

\* Lines 95-139: handleFileSelect, the same steps for the file input, which
\* is rendered while no upload is shown (lines 171 and 190-198).
UploadArea_handleFileSelect(files) ==
  /\ ~area.isUploading
  /\ UploadArea_handleDrop(files)

\* Lines 141-143: clearError, from the button of the message (lines 147-157).
UploadArea_clearError ==
  /\ hook.mounted
  /\ app.activeTab = "upload"
  /\ area.errorMessage # ""
  /\ area' = [area EXCEPT !.errorMessage = ""]
  /\ AreaFrame

\* The file read of an upload the component started is answered.
UploadArea_read(c, fault) ==
  /\ uploadImage_read(c, fault)
  /\ UploadArea_followed(c, area, now)
  /\ UNCHANGED gallery

\* Its probe is answered.
UploadArea_probed(c, fault) ==
  /\ uploadImage_probe(c, fault)
  /\ UploadArea_followed(c, area, now)
  /\ UNCHANGED gallery

\* Its write is answered; when the call resolves, addImage reads the clock,
\* which shows t.
UploadArea_written(c, overwrite, fault, t) ==
  /\ uploadImage_written(c, overwrite, fault)
  /\ UploadArea_followed(c, area, t)
  /\ IF last'.pc = "done" /\ call'[c].pc = "idle" THEN t >= now ELSE now' = now
  /\ UNCHANGED gallery

\* Lines 64-70 and 107-113: the interval's callback: below 90 the progress
\* grows by 10, from 90 on the interval clears itself.
progressInterval(prev) == IF prev >= 90 THEN prev ELSE prev + 10

\* The interval of the upload in slot c fires in the mounted component.  (In
\* an unmounted one the update is dropped and its callback never runs.)
UploadArea_tick(c) ==
  /\ area.interval[c] /\ area.own[c]
  /\ area' = [area EXCEPT !.uploadProgress = progressInterval(@),
                          !.interval[c] = area.uploadProgress < 90]
  /\ AreaFrame

\* The interval of an upload that has ended in the catch fires in the
\* mounted component.
UploadArea_tickAfterFailure ==
  /\ area.ownOrphans > 0
  /\ area' = [area EXCEPT !.uploadProgress = progressInterval(@),
                          !.orphans = IF area.uploadProgress >= 90 THEN @ - 1 ELSE @,
                          !.ownOrphans = IF area.uploadProgress >= 90 THEN @ - 1 ELSE @]
  /\ AreaFrame

\* Lines 82-85 and 125-128: the timeout set after a successful upload fires
\* in the mounted component.
UploadArea_reset ==
  /\ area.ownResets > 0
  /\ area' = [area EXCEPT !.isUploading = FALSE, !.uploadProgress = 0,
                          !.resets = @ - 1, !.ownResets = @ - 1]
  /\ AreaFrame

\* The same timeout of a component unmounted since: its updates are ignored.
UploadArea_resetUnmounted ==
  /\ area.resets > area.ownResets
  /\ area' = [area EXCEPT !.resets = @ - 1]
  /\ AreaFrame

\* ------------------------------------------------------- the application
\* App over useImages and the newer service module: the mount effect's
\* fetchImages comes first; then the tabs, the gallery with its delete
\* buttons and the upload area, and the steps of the calls they have started.
AppInit == Init /\ service = "part_000"

AppNext ==
  \/ useImages_fetchImages
  \/ \E fault \in BOOLEAN : useImages_fetchImages_ensured(fault)
  \/ \E overwrite \in BOOLEAN, fault \in BOOLEAN : useImages_fetchImages_created(overwrite, fault)
  \/ \E fault \in BOOLEAN : useImages_fetchImages_served(fault)
  \/ \E reads \in ClockReads(Len(hook.fetch.urls)) : useImages_fetchImages_delivered(reads)
  \/ \E c \in Calls, i \in DOMAIN images : useImages_deleteImage(c, images[i].id)
  \/ \E c \in Calls, fault \in BOOLEAN : useImages_deleteImage_fetched(c, fault)
  \/ \E c \in Calls, fault \in BOOLEAN : useImages_deleteImage_deleted(c, fault)
  \/ \E tab \in {"upload", "gallery"} : App_setActiveTab(tab)
  \/ \E index \in 0 .. (Len(images) - 1) : ImageGallery_openFullscreen(index)
  \/ ImageGallery_closeFullscreen
  \/ \E direction \in {"prev", "next"} : ImageGallery_navigateImage(direction)
  \/ \E files \in FileLists : UploadArea_handleDrop(files)
  \/ \E files \in FileLists : UploadArea_handleFileSelect(files)
  \/ UploadArea_clearError
  \/ \E c \in Calls, fault \in BOOLEAN : UploadArea_read(c, fault)
  \/ \E c \in Calls, fault \in BOOLEAN : UploadArea_probed(c, fault)
  \/ \E c \in Calls, overwrite \in BOOLEAN, fault \in BOOLEAN, t \in now .. MaxTime :
       UploadArea_written(c, overwrite, fault, t)
  \/ \E c \in Calls : UploadArea_tick(c)
  \/ UploadArea_tickAfterFailure
  \/ UploadArea_reset
  \/ UploadArea_resetUnmounted

AppSpec == AppInit /\ [][AppNext]_vars

\* ------------------------------------------------------------------ claims
\* The calls a state shows: the ones in flight and the one that finished last.
Shown == {call[c] : c \in Calls} \cup {last}

Occurrences(x, seq) == Cardinality({i \in DOMAIN seq : seq[i] = x})

\* A name ends, compared without case, with a recognized image extension.
HasImageExtension(n) ==
  \E k \in 1 .. Len(n) : toLowerCase(SubSeq(n, k, Len(n))) \in SUPPORTED_IMAGE_EXTENSIONS

\* The URL contains the branch marker 'main/'.
HasMarker(url) == \E i \in 1 .. Len(url) : OccursAt(url, BRANCH \o <<"/">>, i)

\* C1: a list whose directory read is answered with the directory and follows
\* a successful store, with no change of the repository in between, returns
\* the URL the store returned exactly once.
C1_StoreThenListHasUrlOnce ==
  (last.op = "list" /\ last.answers = <<"dir">> /\ last.after.stored # <<>>)
    => Occurrences(last.after.stored, last.result) = 1

C1_Witness ==
  /\ last.op = "list"
  /\ last.answers = <<"dir">>
  /\ last.after.stored # <<>>
  /\ service = "part_000"
  /\ Len(last.result) = 3

\* C2: a list whose directory read follows a successful remove of a URL that
\* a store returned, with no change of the repository in between, does not
\* return that URL.
C2_RemoveThenListLacksUrl ==
  (last.op = "list" /\ last.after.removed \in issued)
    => last.after.removed \notin Range(last.result)

C2_Witness ==
  /\ last.op = "list"
  /\ last.after.removed \in issued
  /\ last.answers = <<"dir">>
  /\ last.result # <<>>

\* C3: an uploadImage call that ends in an error has left no asset behind: the
\* backend has acknowledged no write of that call.
C3_FailedStoreWroteNothing ==
  \A rec \in Shown : (rec.op = "upload" /\ rec.pc = "failed") => ~rec.wrote

\* C4: every URL a list returns is the URL of an entry of the directory
\* snapshot that is a file, is not on the ignore list, does not start with
\* '.', and ends (without regard to case) with an image extension; and IMG.JPG
\* is listed when the snapshot holds it as a file.
C4_ListedAreImages ==
  last.op = "list" =>
    /\ \A i \in DOMAIN last.result :
         \E j \in DOMAIN last.snap :
           /\ last.result[i] = RawUrl(last.snap[j].path)
           /\ last.snap[j].type = "file"
           /\ last.snap[j].name \notin IGNORED_FILES
           /\ Head(last.snap[j].name) # "."
           /\ HasImageExtension(last.snap[j].name)
    /\ \A j \in DOMAIN last.snap :
         (last.snap[j].name = <<"I", "M", "G", ".", "J", "P", "G">> /\ last.snap[j].type = "file")
           => RawUrl(last.snap[j].path) \in Range(last.result)

\* C5: a list never ends in an error, and returns the empty sequence when its
\* directory read is answered with not-found, with another error, or with a
\* single file instead of an array.
C5_ListNeverFails ==
  \A rec \in Shown : rec.op = "list" =>
    /\ rec.pc # "failed"
    /\ (rec.answers \in {<<"404">>, <<"500">>, <<"file">>}) => (rec.pc = "done" /\ rec.result = <<>>)

C5_Witness ==
  /\ last.op = "list"
  /\ last.answers = <<"500">>
  /\ last.result = <<>>

\* C6: an uploadImage call whose file is larger than the ceiling, or whose name
\* has no image extension, ends in an error and has sent no request.
C6_InvalidFileSendsNothing ==
  \A rec \in Shown :
    (rec.op = "upload" /\ (rec.arg.size > 25 * 1024 * 1024 \/ ~HasImageExtension(rec.arg.name)))
      => (rec.pc = "failed" /\ rec.net = <<>>)

\* C7: a deleteImage call whose URL lacks the branch marker ends in an error
\* and has sent no request.
C7_NoMarkerSendsNothing ==
  \A rec \in Shown :
    (rec.op = "delete" /\ ~HasMarker(rec.arg)) => (rec.pc = "failed" /\ rec.net = <<>>)

\* C8: a deleteImage call whose fetch of the revision tag is answered with an
\* error or with a directory ends in an error and sends no delete; a call that
\* returns normally has had its delete acknowledged.
C8_NoDeleteWithoutRevision ==
  \A rec \in Shown : rec.op = "delete" =>
    /\ (rec.pc = "done" => rec.deleted)
    /\ (rec.answers # <<>> /\ rec.answers[1] # "file")
         => (rec.pc = "failed" /\ "deleteFile" \notin Range(rec.net))

\* C9 as stated: with the configuration absent, every call of the four
\* operations ends in an error and has sent no request.
C9_Original ==
  \A rec \in Shown :
    (ConfigMissing /\ rec.op # "none") => (rec.pc = "failed" /\ rec.net = <<>>)

\* C9 as amended: with the configuration absent no call sends a request;
\* uploadImage, deleteImage and ensureImagesDirectory end in an error, and
\* getUploadedImages returns the empty sequence.
C9_Unconfigured ==
  \A rec \in Shown :
    (ConfigMissing /\ rec.op # "none") =>
      /\ rec.net = <<>>
      /\ IF rec.op = "list" THEN rec.pc = "done" /\ rec.result = <<>>
         ELSE rec.pc = "failed"

C9_Witness ==
  /\ ConfigMissing
  /\ last.op = "list"
  /\ last.pc = "done"

\* C10 as stated: the sanitized name matches ^[A-Za-z0-9.-]+$.
C10_Original ==
  sanitized # NotRun =>
    /\ Len(sanitized) >= 1
    /\ \A i \in DOMAIN sanitized :
         sanitized[i] \in Range(Lower) \cup Range(Upper) \cup Range(Digits) \cup {".", "-"}

\* C10 as amended: the sanitized name is as long as the declared name and
\* matches ^[A-Za-z0-9._-]*$.
C10_SanitizedIsPathSafe ==
  sanitized # NotRun =>
    /\ Len(sanitized) = Len(declared)
    /\ \A i \in DOMAIN sanitized :
         sanitized[i] \in Range(Lower) \cup Range(Upper) \cup Range(Digits) \cup {".", "-", "_"}

C10_Witness ==
  /\ sanitized # NotRun
  /\ declared = <<"a", " ", "/">>
  /\ sanitized = <<"a", "_", "_">>

\* C11: sanitizing a sanitized name yields the same name.
C11_SanitizeIdempotent ==
  resanitized # NotRun => resanitized = sanitized

C11_Witness ==
  /\ resanitized # NotRun
  /\ declared = <<" ", "_", "/">>
  /\ resanitized = <<"_", "_", "_">>

\* The URL of the asset the earlier uploadImage call stored at clock 0.
EarlierUrl == RawUrl(ImagesPrefix \o EarlierName)

\* The URLs a store of the same declared name returns at a later clock value.
LaterUrls ==
  {RawUrl(ImagesPrefix \o Timestamp(t) \o <<"-", "a", "_", "b", ".", "P", "N", "G">>) :
     t \in 1 .. MaxTime}

\* C12: when a store of the declared name of the earlier asset has succeeded at
\* a later millisecond, its URL differs from the earlier one, and a list whose
\* directory read follows it and still holds the earlier asset returns both
\* URLs, the later one before the earlier one.
C12_TwoStoresNewestFirst ==
  (/\ last.op = "list"
   /\ last.answers = <<"dir">>
   /\ last.after.stored \in LaterUrls
   /\ \E j \in DOMAIN last.snap : last.snap[j].name = EarlierName)
    => /\ last.after.stored # EarlierUrl
       /\ \E i, k \in DOMAIN last.result :
            /\ last.result[i] = last.after.stored
            /\ last.result[k] = EarlierUrl
            /\ i < k

\* C13: the path a deleteImage call derives from a URL that a store returned
\* is the path the store wrote: the URL of the derived path is the URL given.
C13_RemovePathIsStorePath ==
  \A rec \in Shown :
    (rec.op = "delete" /\ rec.arg \in issued /\ rec.net # <<>>)
      => RawUrl(rec.path) = rec.arg

\* C14: a list whose directory read follows the return of an
\* ensureImagesDirectory call that found the directory absent, with no change
\* of the repository in between, is not answered with not-found and returns
\* the empty sequence; when the read is answered, the directory holds the
\* placeholder and nothing else.
C14_BootstrapMakesListable ==
  (last.op = "list" /\ last.after.ensured) =>
    /\ last.answers # <<"404">>
    /\ last.result = <<>>
    /\ last.answers = <<"dir">> => [j \in DOMAIN last.snap |-> last.snap[j].name] = <<GitKeep>>

C14_Witness ==
  /\ last.op = "list"
  /\ last.after.ensured
  /\ last.answers = <<"dir">>
  /\ Len(last.snap) = 1

\* C15: an ensureImagesDirectory call sends the write of the placeholder only
\* after its directory read was answered with not-found; a call whose read is
\* answered (the directory exists) returns normally having sent the read only
\* and written nothing; a call whose read fails otherwise ends in an error
\* having sent the read only and written nothing.
C15_BootstrapWritesOnlyOnNotFound ==
  \A rec \in Shown : (rec.op = "ensure" /\ rec.answers # <<>>) =>
    /\ "createOrUpdateFileContents" \in Range(rec.net) => rec.answers[1] = "404"
    /\ rec.answers[1] \in {"dir", "file"} =>
         (rec.pc = "done" /\ rec.net = <<"getContent">> /\ ~rec.wrote)
    /\ rec.answers[1] \notin {"dir", "file", "404"} =>
         (rec.pc = "failed" /\ rec.net = <<"getContent">> /\ ~rec.wrote)

C15_Witness ==
  /\ last.op = "ensure"
  /\ last.pc = "done"
  /\ last.answers = <<"dir">>
  /\ recent.ensured

\* C16: no step replaces the content stored at a path: an entry that is in the
\* repository before and after a step holds the same content.
C16_AssetsAreImmutable ==
  [][\A n \in DOMAIN repo \cap DOMAIN repo' : repo'[n] = repo[n]]_vars

\* C17: an uploadImage call has sent the write only after a probe that was
\* answered with not-found; a call whose probe found content, or failed with
\* another error, ends in an error having sent the probe only.
C17_WriteOnlyAfterProbeNotFound ==
  \A rec \in Shown : rec.op = "upload" =>
    /\ "createOrUpdateFileContents" \in Range(rec.net) =>
         (rec.net[1] = "getContent" /\ rec.answers # <<>> /\ rec.answers[1] = "404")
    /\ (rec.net # <<>> /\ rec.net[1] = "getContent" /\ rec.answers # <<>> /\ rec.answers[1] # "404") =>
         (rec.pc = "failed" /\ rec.net = <<"getContent">>)

\* A deleteImage call whose delete was refused because the content changed
\* after its fetch has ended in an error, and the path still holds content
\* other than the one it fetched.
RefusedDeleteKeepsContent ==
  \A rec \in Shown : (rec.op = "delete" /\ rec.answers = <<"file", "409">>) =>
    /\ rec.pc = "failed"
    /\ ~rec.deleted
    /\ NameOf(rec.path) \in DOMAIN repo
    /\ Sha(repo[NameOf(rec.path)]) # rec.sha

\* An entry leaves the repository only in a step where a deleteImage call
\* awaiting its delete holds, as the sha it fetched, the sha of the content the
\* entry has at that step.
OnlyFetchedRevisionIsDeleted ==
  \A n \in DOMAIN repo \ DOMAIN repo' :
    \E c \in Calls :
      /\ call[c].op = "delete"
      /\ call[c].pc = "deleting"
      /\ NameOf(call[c].path) = n
      /\ call[c].sha = Sha(repo[n])

\* C18: a delete removes only the revision its call fetched; when another
\* writer changes the content between the fetch and the delete, the delete is
\* refused, the call ends in an error and the newer content stays.
C18_DeleteCarriesFetchedSha ==
  []RefusedDeleteKeepsContent /\ [][OnlyFetchedRevisionIsDeleted]_vars

C18_Witness ==
  /\ last.op = "delete"
  /\ last.pc = "failed"
  /\ last.answers = <<"file", "409">>
  /\ repo[NameOf(last.path)].data = OtherData

\* C19: the values an uploadImage call has handed to its callback are a prefix
\* of 30, 60, 100; 30 is handed over only once the file read has resolved, 100
\* only once the write has been acknowledged, and a call that ended in an
\* error has not handed over 100.
C19_ProgressMilestones ==
  \A rec \in Shown : (rec.op = "upload" /\ rec.cb # -1) =>
    /\ rec.progress \in {<<>>, <<30>>, <<30, 60>>, <<30, 60, 100>>}
    /\ 30 \in Range(rec.progress) => rec.pc # "reading"
    /\ 100 \in Range(rec.progress) => rec.wrote
    /\ rec.pc = "failed" => 100 \notin Range(rec.progress)

\* C20: while the application is rendered, every URL addImage has added after
\* a successful store is in the local image list, unless a deleteImage has
\* removed it.
C20_AddedImageStays ==
  ~RenderThrew => \A u \in hook.added :
     \/ \E i \in DOMAIN images : images[i].url = u
     \/ \E k \in DOMAIN hook.ended : hook.ended[k].how = "removed" /\ hook.ended[k].url = u

\* The ids of the images a step takes out of the local list.
LostIds == {images[i].id : i \in DOMAIN images} \ {images'[i].id : i \in DOMAIN images'}

\* The step is the arrival of a fetch's answer, which replaces the list.
FetchDelivered ==
  hook.fetch.pc = "answered" /\ hook'.fetch.pc = "idle"

\* The step ends a backend remove in an error.
RemoveRejected ==
  /\ last'.op = "delete" /\ last'.pc = "failed"
  /\ \E c \in Calls : call[c].op = "delete" /\ call'[c].pc = "idle"

\* The outcome a step appends to the hook's finished deleteImage calls.
EndedAs(how) ==
  /\ Len(hook'.ended) = Len(hook.ended) + 1
  /\ hook'.ended[Len(hook'.ended)].how = how

\* C21: in useImages an image leaves the local list through deleteImage(id)
\* only in the step in which the backend remove of its URL has succeeded (the
\* file is gone from the repository), and no image of that id is in the list
\* afterwards; a backend remove that fails leaves the list unchanged, sets
\* the error state and ends the call in an error; deleteImage of an id that
\* is not in the list fails without any backend call.
C21_DeleteImageFollowsBackend ==
  [][/\ (LostIds # {} /\ ~FetchDelivered) =>
          /\ last'.op = "delete" /\ last'.pc = "done" /\ last'.deleted
          /\ last'.answers = <<"file", "ok">>
          /\ NameOf(last'.path) \notin DOMAIN repo'
          /\ \E c \in Calls : call[c].op = "delete" /\ call[c].arg = last'.arg /\ call'[c].pc = "idle"
          /\ \A i \in DOMAIN images : images[i].id \in LostIds => images[i].url = last'.arg
          /\ EndedAs("removed")
     /\ RemoveRejected =>
          /\ images' = images
          /\ EndedAs("error")
          /\ hook'.error = last'.err /\ hook'.error # ""
     /\ EndedAs("notfound") =>
          /\ images' = images
          /\ call' = call /\ last' = last /\ repo' = repo
     /\ EndedAs("removed") =>
          \A i \in DOMAIN images' : images'[i].id # hook'.ended[Len(hook'.ended)].id
    ]_vars

\* C22: whenever the fullscreen view of ImageGallery is open, the selected
\* index is an index of the current image list: 0 <= selectedImageIndex <
\* images.length.
C22_SelectedIndexIsValid ==
  gallery.open => (gallery.index >= 0 /\ gallery.index < Len(images))

\* C23: once an upload of UploadArea has failed, and until the next upload
\* starts, the progress is 0 and isUploading is false; stated where no other
\* upload is in flight and no reset of an earlier upload is pending, so that
\* only a timer of the failed upload could change the progress.
C23_ProgressStaysResetAfterFailure ==
  (/\ area.failed
   /\ \A c \in Calls : call[c].pc = "idle"
   /\ area.ownResets = 0)
    => (area.uploadProgress = 0 /\ ~area.isUploading)

====
